---- MODULE Spec2Model ----
(***************************************************************************)
(* State-machine model of the wystia client library: the shared request    *)
(* counter and token of _BaseWistiaApi, the counting / retrying session,   *)
(* the list_page pagination driver, the error handling of the Data API     *)
(* calls, upload_file under retry_on_connection_error, the URL join of    *)
(* prefix_url_session, the captions calls, WistiaHelper.project_details    *)
(* and the SRT duration parser.                                            *)
(***************************************************************************)
EXTENDS Integers, Sequences, FiniteSets, TLC

\* ------------------------------------------------------------------ bounds
\* largest remote collection
MaxItems == 3
\* largest per_page a caller passes
MaxPerPage == 2
\* logical requests dispatched between two resets
MaxRequests == 4
\* largest max_retries a caller passes to upload_file
MaxUploadRetries == 3
\* longest base URL and longest relative path, in characters
MaxLen == 3
\* longest DEFAULT_STATUS_FORCE_LIST the model lets grow
MaxForceList == 6
\* page size the remote applies when a query carries no per_page
RemoteDefaultPerPage == 2
\* concurrently calling threads
NThreads == 3

\* ------------------------------------------------------- program constants
DEFAULT_MAX_RETRIES == 7
_MAX_PER_PAGE == 100

InitialStatusForceList == <<429, 500, 502, 503, 504>>

Classes == {"WistiaDataApi", "WistiaUploadApi", "WistiaEmbedApi"}

\* classes whose _get_session is the one inherited from _BaseWistiaApi
CountingClasses == {"WistiaDataApi", "WistiaUploadApi"}

Tokens == {"None", "tok1"}

\* Optional values: None is the empty tuple, a present value a 1-tuple.
None == <<>>
Some(x) == <<x>>

\* Python truthiness of an optional int (None and 0 are falsy)
TruthyInt(o) == o # None /\ o[1] # 0

\* Python truthiness of an optional str (None and '' are falsy)
TruthyStr(o) == o # None /\ o[1] # ""

Min(a, b) == IF a < b THEN a ELSE b

VARIABLES
    REQUEST_COUNT,              \* _BaseWistiaApi._REQUEST_COUNT
    API_TOKEN,                  \* _BaseWistiaApi._API_TOKEN
    DEFAULT_STATUS_FORCE_LIST,  \* module-level list of requests_config
    remote,                     \* number of items of the remote collection
    pc,                         \* where the (single) caller is
    call,                       \* locals of the facade call in progress
    session,                    \* session the call in progress sends through
    requests,                   \* logical requests dispatched by the call in progress
    retry,                      \* Retry.total left for the logical request in flight
    attempts,                   \* physical attempts of the logical request in flight
    response,                   \* what session.request handed back
    outcome,                    \* how the last facade call ended
    sent,                       \* per class: session.request invocations since the last reset
    tpc,                        \* per thread: position inside the counting wrapper
    treg,                       \* per thread: value read by `_REQUEST_COUNT += 1`
    LOG,                        \* LOG.error entries of the facade call in progress
    fn                          \* argument and result of a function applied on its own

vars == <<REQUEST_COUNT, API_TOKEN, DEFAULT_STATUS_FORCE_LIST, remote, pc, call,
          session, requests, retry, attempts, response, outcome, sent, tpc, treg,
          LOG, fn>>

Threads == 1..NThreads

\* ------------------------------------------------------------ shared state

\* _BaseWistiaApi.request_count: every class reads the base attribute
request_count(cls) == REQUEST_COUNT

\* body of the wrapper of _increment_count_decorator
IncrementCountTwice(count) == count + 2
IncrementCount(count) == count + 1

\* SessionWithRetry.__init__: the list the Retry strategy is built with;
\* `extend` works on the module-level list itself
StatusForceList(additional) ==
    IF additional # <<>>
    THEN DEFAULT_STATUS_FORCE_LIST \o additional
    ELSE DEFAULT_STATUS_FORCE_LIST

\* _BaseWistiaApi._create_session
CreateSessionAnonymous(cls, additional) ==
    [cls |-> cls,
     auth |-> <<"api", "None">>,
     status_forcelist |-> StatusForceList(additional),
     counting |-> FALSE]
_create_session(cls, additional) ==
    [cls |-> cls,
     auth |-> <<"api", API_TOKEN>>,
     status_forcelist |-> StatusForceList(additional),
     counting |-> FALSE]

\* _get_session: _BaseWistiaApi wraps session.request with the counting
\* decorator, WistiaEmbedApi overrides it and does not
GetSessionAllCounting(cls, additional) ==
    [_create_session(cls, additional) EXCEPT !.counting = TRUE]
GetSessionDataOnly(cls, additional) ==
    [_create_session(cls, additional) EXCEPT !.counting = (cls = "WistiaDataApi")]
_get_session(cls, additional) ==
    IF cls = "WistiaEmbedApi"
    THEN _create_session(cls, additional)
    ELSE [_create_session(cls, additional) EXCEPT !.counting = TRUE]

NoCall ==
    [op |-> "none", cls |-> "none", per_page |-> 0, data_key |-> None,
     data_model |-> None, params |-> <<>>, page |-> 0,
     page_data |-> <<>>, data |-> <<>>, id |-> "", dest |-> None,
     retries |-> 0, max_retries |-> 0, contents |-> None, file |-> None,
     projects |-> None]

NoSession ==
    [cls |-> "none", auth |-> <<"api", "None">>,
     status_forcelist |-> <<>>, counting |-> FALSE]

NoResponse == [error |-> "", status |-> 0, text |-> <<>>]

NoOutcome ==
    [kind |-> "none", error |-> "", model |-> None, value |-> <<>>, id |-> ""]

Returned(model, value) ==
    [kind |-> "return", error |-> "", model |-> model, value |-> value, id |-> ""]
Raised(error) ==
    [kind |-> "raise", error |-> error, model |-> None, value |-> <<>>, id |-> ""]
\* an exception built with the id it is about: NoSuchMedia(video_id), ...
RaisedFor(error, id) == [Raised(error) EXCEPT !.id = id]
\* UploadFailed(r): built with r.status_code and r.text (and r.reason, the
\* phrase that goes with the status)
UploadFailedBlank(r) == Raised("UploadFailed")
UploadFailed(r) ==
    [Raised("UploadFailed") EXCEPT !.value = <<r.status, r.text>>]

NoFn == [arg |-> <<>>, result |-> <<>>, done |-> FALSE]

TotalSent == sent["WistiaDataApi"] + sent["WistiaUploadApi"] + sent["WistiaEmbedApi"]

\* ------------------------------------------------------------------- Init
InitLocal ==
    /\ REQUEST_COUNT = 0
    /\ API_TOKEN = "None"
    /\ DEFAULT_STATUS_FORCE_LIST = InitialStatusForceList
    /\ pc = "idle"
    /\ call = NoCall
    /\ session = NoSession
    /\ requests = <<>>
    /\ retry = 0
    /\ attempts = 0
    /\ response = NoResponse
    /\ outcome = NoOutcome
    /\ sent = [c \in Classes |-> 0]
    /\ tpc = [t \in Threads |-> "idle"]
    /\ treg = [t \in Threads |-> 0]
    /\ LOG = <<>>

InitProgram == InitLocal /\ remote \in 0..MaxItems

Init == InitProgram /\ fn = NoFn

\* ---------------------------------------------------------- configuration

\* the caller drops what the previous facade call left behind
ForgetCall ==
    /\ call' = NoCall
    /\ requests' = <<>>
    /\ outcome' = NoOutcome
    /\ LOG' = <<>>

\* _BaseWistiaApi.configure (a staticmethod: any class sets the base attribute)
Configure(cls, t) ==
    /\ pc = "idle"
    /\ API_TOKEN' = t
    /\ ForgetCall
    /\ UNCHANGED <<REQUEST_COUNT, DEFAULT_STATUS_FORCE_LIST, remote, pc,
                   session, retry, attempts, response, sent, tpc, treg, fn>>

\* reset_request_count assigns 0 to the attribute of the base class
ResetOnSubclassOnly(count) == count
ResetValue(count) == 0

\* _BaseWistiaApi.reset_request_count
ResetRequestCount(cls) ==
    /\ pc = "idle"
    /\ \A t \in Threads : tpc[t] = "idle"
    /\ REQUEST_COUNT' = ResetValue(REQUEST_COUNT)
    /\ sent' = [c \in Classes |-> 0]
    /\ ForgetCall
    /\ UNCHANGED <<API_TOKEN, DEFAULT_STATUS_FORCE_LIST, remote, pc,
                   session, retry, attempts, response, tpc, treg, fn>>

\* _BaseWistiaApi.session: a new session handed to the caller, nothing sent
NewSession(cls, additional) ==
    /\ pc = "idle"
    /\ Len(StatusForceList(additional)) <= MaxForceList
    /\ session' = _get_session(cls, additional)
    /\ DEFAULT_STATUS_FORCE_LIST' = StatusForceList(additional)
    /\ ForgetCall
    /\ UNCHANGED <<REQUEST_COUNT, API_TOKEN, remote, pc, retry,
                   attempts, response, sent, tpc, treg, fn>>

\* ------------------------------------------------------------- the remote

\* The page of the collection the remote serves for a query: items are
\* numbered 1..remote, `page` defaults to 1 and `per_page` to the
\* remote's own default page size.
RemotePage(prm) ==
    LET p  == IF "page" \in DOMAIN prm THEN prm["page"] ELSE 1
        n  == IF "per_page" \in DOMAIN prm THEN prm["per_page"] ELSE RemoteDefaultPerPage
        lo == (p - 1) * n + 1
        hi == Min(p * n, remote)
    IN  IF hi < lo THEN <<>> ELSE [i \in 1..(hi - lo + 1) |-> lo + i - 1]

\* JSON body of a list endpoint: the array itself, or the array nested under
\* a key for the endpoints read with a data_key (projects/{id}.json: 'medias')
RemoteBody(data_key, arr) ==
    IF data_key # None THEN (data_key[1] :> arr) ELSE arr

\* ------------------------------------------------------------- dispatch

\* Response.raise_for_status raises HTTPError for 4xx and 5xx
RaisesNever(status) == FALSE
RaisesForStatus(status) == 400 <= status /\ status < 600

\* _has_resp_status(e, status): the response of the HTTPError has that status
HasOtherStatus(r, status) == r.status # status
_has_resp_status(r, status) == r.status = status

\* cls._get_session().request(method, url, params=...): a fresh session is
\* built, the counting wrapper (when present) runs first, then the request
\* enters the retrying transport.
Dispatch(cls, reqs, method, prm) ==
    /\ TotalSent < MaxRequests
    /\ session' = _get_session(cls, <<>>)
    /\ DEFAULT_STATUS_FORCE_LIST' = StatusForceList(<<>>)
    /\ REQUEST_COUNT' = IF _get_session(cls, <<>>).counting
                        THEN IncrementCount(REQUEST_COUNT)
                        ELSE REQUEST_COUNT
    /\ requests' = Append(reqs, [cls |-> cls, method |-> method, params |-> prm])
    /\ sent' = [sent EXCEPT ![cls] = @ + 1]
    /\ retry' = DEFAULT_MAX_RETRIES
    /\ attempts' = 0
    /\ response' = NoResponse
    /\ pc' = "transport"

\* What one physical attempt can meet: a response status, or no response
AttemptResults ==
    [kind : {"status"}, status : {200, 404, 503}, text : {<<>>}]
        \cup [kind : {"connect_error", "read_error"}, status : {0}, text : {<<>>}]

\* Retry.is_retry / Retry.increment as configured by SessionWithRetry:
\* a forced status or a connection failure consumes one of `total`; with
\* read=0 an error while reading the response is never retried
RetryEverything(o) == TRUE
Retryable(o) ==
    \/ o.kind = "connect_error"
    \/ /\ o.kind = "status"
       /\ \E i \in 1..Len(session.status_forcelist) :
              session.status_forcelist[i] = o.status

\* what session.request hands back once the attempts are over
FinalResponse(o) ==
    IF o.kind \in {"connect_error", "read_error"}
    THEN [error |-> "ConnectionError", status |-> 0, text |-> <<>>]
    ELSE IF Retryable(o)
         THEN [error |-> "RetryError", status |-> o.status, text |-> <<>>]
         ELSE [error |-> "", status |-> o.status, text |-> o.text]

\* what the transport holds while it is about to try again
Retrying(o) == [error |-> "retrying", status |-> o.status, text |-> <<>>]

\* One physical attempt made by the HTTPAdapter under the Retry strategy
Attempt(o) ==
    /\ pc = "transport"
    /\ attempts' = attempts + 1
    /\ IF Retryable(o) /\ retry > 0
       THEN /\ retry' = retry - 1
            /\ response' = Retrying(o)
            /\ UNCHANGED pc
       ELSE /\ response' = FinalResponse(o)
            /\ pc' = "response"
            /\ UNCHANGED retry
    /\ UNCHANGED <<REQUEST_COUNT, API_TOKEN, DEFAULT_STATUS_FORCE_LIST, remote,
                   call, session, requests, outcome, sent, tpc, treg, LOG, fn>>

\* the session and the response of a finished call go out of scope
Forget ==
    /\ session' = NoSession
    /\ retry' = 0
    /\ attempts' = 0
    /\ response' = NoResponse

\* the exception classes of errors.py
DomainErrors ==
    {"ContentIsEmpty", "NoSuchProject", "NoSuchMedia", "VideoHasCaptions",
     "UploadFailed"}

\* the keyword each subclass passes to WistiaError.__init__ for the id it
\* is built with (ContentIsEmpty passes none, UploadFailed passes status,
\* text and reason of the response)
LogKey ==
    [ContentIsEmpty |-> "", NoSuchProject |-> "project_id",
     NoSuchMedia |-> "media_id", VideoHasCaptions |-> "video_id",
     UploadFailed |-> "status"]

ErrorLogTwice(result) ==
    IF result.kind = "raise" /\ result.error \in DomainErrors
    THEN <<[code |-> result.error, key |-> LogKey[result.error],
            id |-> result.id, status |-> 0],
           [code |-> result.error, key |-> LogKey[result.error],
            id |-> result.id, status |-> 0]>>
    ELSE <<>>

\* WistiaError.__init__: `LOG.error('%s: %s', self.code, message)`, the
\* message ending with the keyword fields the subclass passes as key=value
ErrorLog(result) ==
    IF result.kind = "raise" /\ result.error \in DomainErrors
    THEN <<[code |-> result.error, key |-> LogKey[result.error],
            id |-> result.id,
            status |-> IF result.error = "UploadFailed" /\ result.value # <<>>
                       THEN result.value[1] ELSE 0]>>
    ELSE <<>>

\* ------------------------------------------------------------- list_page

\* _request_page: the query parameters of one page request
RequestPageParamsZeroBased(prm, page, per_page) ==
    LET p1 == IF TruthyInt(page) THEN ("page" :> page[1] - 1) @@ prm ELSE prm
    IN  IF TruthyInt(per_page) THEN ("per_page" :> per_page[1]) @@ p1 ELSE p1
RequestPageParams(prm, page, per_page) ==
    LET p1 == IF TruthyInt(page) THEN ("page" :> page[1]) @@ prm ELSE prm
    IN  IF TruthyInt(per_page) THEN ("per_page" :> per_page[1]) @@ p1 ELSE p1

\* the caller's params dictionary once _request_page has run: the keys go
\* into `(kwargs.pop('params', None) or {}).copy()`, not into the dictionary
CallerDictWritten(prm, page, per_page) == RequestPageParams(prm, page, per_page)
CallerDictAfter(prm, page, per_page) == prm

\* `if data_key: page_data = page_data[data_key]`
ExtractPage(data_key, body) ==
    IF TruthyStr(data_key) THEN body[data_key[1]] ELSE body

\* data.extend(page_data)
ExtendReversed(data, page_data) == page_data \o data
Extend(data, page_data) == data \o page_data

\* `while len(page_data) == per_page`
MorePagesWhileNonEmpty(page_data, per_page) == Len(page_data) > 0
MorePages(page_data, per_page) == Len(page_data) = per_page

\* data_model.from_list(data): one instance per raw object, in order
from_list(data_model, data) ==
    [i \in 1..Len(data) |-> [model |-> data_model, raw |-> data[i]]]

\* `if data_model: return Container(data_model, instances)` else the raw list
ListPageResult(data_model, data) ==
    IF data_model # None
    THEN Returned(data_model, from_list(data_model[1], data))
    ELSE Returned(None, data)

\* list_page up to and including its first page request, called by the
\* caller itself (op "list_page") or by list_project / list_medias for `id`
ListPageFor(op, id, cls, data_model, data_key, per_page, prm) ==
    /\ pc = "idle"
    /\ call' = [NoCall EXCEPT !.op = op, !.id = id, !.cls = cls,
                              !.per_page = per_page, !.data_key = data_key,
                              !.data_model = data_model,
                              !.params = CallerDictAfter(prm, None, Some(per_page)),
                              !.page = 1]
    /\ outcome' = NoOutcome
    /\ LOG' = <<>>
    /\ Dispatch(cls, <<>>, "GET", RequestPageParams(prm, None, Some(per_page)))
    /\ UNCHANGED <<API_TOKEN, remote, tpc, treg, fn>>

ListPage(cls, data_model, data_key, per_page, prm) ==
    ListPageFor("list_page", "", cls, data_model, data_key, per_page, prm)

ListOps == {"list_page", "list_project", "list_medias", "project_details"}

\* what leaves a listing whose page request failed: list_page lets the
\* exception through; list_project and list_medias catch an HTTPError and
\* `raise NoSuchProject(project_id) if cls._has_resp_status(e, 404) else e`
ListError(c, r) ==
    IF r.error # "" THEN Raised(r.error)
    ELSE IF c.op \in {"list_project", "list_medias"} /\ _has_resp_status(r, 404)
         THEN RaisedFor("NoSuchProject", c.id)
         ELSE Raised("HTTPError")

\* Project.hashed_id of a project record
hashed_id(p) == ToString(p.raw)

\* project_details: `for p in projects: if p.hashed_id == project_id: ...
\* break`, `else: raise NoSuchProject(project_id)`
FindProject(project_id, projects) ==
    LET hits == {i \in 1..Len(projects) : hashed_id(projects[i]) = project_id}
    IN  IF hits = {} THEN RaisedFor("NoSuchProject", project_id)
        ELSE Returned(Some("Project"),
                      <<projects[CHOOSE i \in hits : \A j \in hits : i <= j]>>)

\* what a listing that fetched `data` hands to its caller: the container of
\* list_page, which project_details goes on to search
ListResult(c, data) ==
    IF c.op = "project_details"
    THEN FindProject(c.id, from_list(c.data_model[1], data))
    ELSE ListPageResult(c.data_model, data)

\* list_page from the return of a page request: raise, or take the page and
\* either request the next page or return
ListPageResponse ==
    /\ pc = "response"
    /\ call.op \in ListOps
    /\ IF response.error # "" \/ RaisesForStatus(response.status)
       THEN /\ outcome' = ListError(call, response)
            /\ LOG' = ErrorLog(ListError(call, response))
            /\ pc' = "idle"
            /\ Forget
            /\ UNCHANGED <<REQUEST_COUNT, DEFAULT_STATUS_FORCE_LIST, call,
                           requests, sent>>
       ELSE LET body      == RemoteBody(call.data_key,
                                 RemotePage(requests[Len(requests)].params))
                page_data == ExtractPage(call.data_key, body)
                data      == Extend(call.data, page_data)
            IN  IF MorePages(page_data, call.per_page)
                THEN /\ call' = [call EXCEPT !.page = @ + 1,
                                             !.page_data = page_data,
                                             !.data = data,
                                             !.params = CallerDictAfter(
                                                 call.params, Some(call.page + 1),
                                                 Some(call.per_page))]
                     /\ Dispatch(call.cls, requests, "GET",
                            RequestPageParams(call.params, Some(call.page + 1),
                                              Some(call.per_page)))
                     /\ UNCHANGED <<outcome, LOG>>
                ELSE /\ call' = [call EXCEPT !.page_data = page_data,
                                             !.data = data]
                     /\ outcome' = ListResult(call, data)
                     /\ LOG' = ErrorLog(ListResult(call, data))
                     /\ pc' = "idle"
                     /\ Forget
                     /\ UNCHANGED <<REQUEST_COUNT, DEFAULT_STATUS_FORCE_LIST,
                                    requests, sent>>
    /\ UNCHANGED <<API_TOKEN, remote, tpc, treg, fn>>

\* ------------------------------------------------- single-request calls

\* a facade call about the resource `id` (and, for a copy, the destination
\* project `dest`) up to its one request
StartCallFor(op, cls, method, id, dest) ==
    /\ pc = "idle"
    /\ call' = [NoCall EXCEPT !.op = op, !.cls = cls, !.id = id, !.dest = dest]
    /\ outcome' = NoOutcome
    /\ LOG' = <<>>
    /\ Dispatch(cls, <<>>, method, <<>>)
    /\ UNCHANGED <<API_TOKEN, remote, tpc, treg, fn>>

StartCall(op, cls, method) == StartCallFor(op, cls, method, "", None)

\* the call ends with `result`, having written `entries` to the log
EndCallWith(result, entries) ==
    /\ outcome' = result
    /\ LOG' = entries
    /\ pc' = "idle"
    /\ Forget
    /\ UNCHANGED <<REQUEST_COUNT, API_TOKEN, DEFAULT_STATUS_FORCE_LIST, remote,
                   call, requests, sent, tpc, treg, fn>>

EndCall(result) == EndCallWith(result, ErrorLog(result))

\* WistiaDataApi.get_video up to its request
GetVideo(video_id) ==
    StartCallFor("get_video", "WistiaDataApi", "GET", video_id, None)

\* WistiaDataApi.get_video from the return of its request
GetVideoResponse ==
    /\ pc = "response"
    /\ call.op = "get_video"
    /\ EndCall(IF response.error # "" THEN Raised(response.error)
               ELSE IF RaisesForStatus(response.status)
                    THEN (IF _has_resp_status(response, 404)
                          THEN RaisedFor("NoSuchMedia", call.id)
                          ELSE Raised("HTTPError"))
                    ELSE Returned(Some("Video"), <<>>))

\* WistiaUploadApi.upload_link up to its request
UploadLink == StartCall("upload_link", "WistiaUploadApi", "POST")

\* upload_link / _upload_url_or_file_to_wistia from the return of the request
UploadLinkResponse ==
    /\ pc = "response"
    /\ call.op = "upload_link"
    /\ EndCall(IF response.error # "" THEN Raised(response.error)
               ELSE IF RaisesForStatus(response.status)
                    THEN UploadFailed(response)
                    ELSE Returned(Some("UploadResponse"), <<>>))

\* WistiaUploadApi.upload_file(max_retries=...) up to the first request of
\* _upload_url_or_file_to_wistia under retry_on_connection_error: `retries = 0`
\* and `while retries < max_retries`, after which
\* `raise Exception('Maximum retries exceeded')`
RetryAgainInclusive(retries, max_retries) == retries <= max_retries
RetryAgain(retries, max_retries) == retries < max_retries

UploadFile(max_retries) ==
    /\ pc = "idle"
    /\ call' = [NoCall EXCEPT !.op = "upload_file", !.cls = "WistiaUploadApi",
                              !.max_retries = max_retries]
    /\ LOG' = <<>>
    /\ IF RetryAgain(0, max_retries)
       THEN /\ outcome' = NoOutcome
            /\ Dispatch("WistiaUploadApi", <<>>, "POST", <<>>)
       ELSE /\ outcome' = Raised("Exception")
            /\ requests' = <<>>
            /\ UNCHANGED <<REQUEST_COUNT, DEFAULT_STATUS_FORCE_LIST, pc, session,
                           retry, attempts, response, sent>>
    /\ UNCHANGED <<API_TOKEN, remote, tpc, treg, fn>>

\* upload_file from the return of a request: `except RequestsConnectionError:
\* retries += 1` and the loop test again, `except Exception: raise` for
\* anything else raised, UploadFailed(r) for an HTTPError, or the result
UploadFileResponse ==
    /\ pc = "response"
    /\ call.op = "upload_file"
    /\ IF response.error = "ConnectionError"
       THEN IF RetryAgain(call.retries + 1, call.max_retries)
            THEN /\ call' = [call EXCEPT !.retries = @ + 1]
                 /\ Dispatch(call.cls, requests, "POST", <<>>)
                 /\ UNCHANGED <<API_TOKEN, remote, outcome, tpc, treg, LOG, fn>>
            ELSE /\ call' = [call EXCEPT !.retries = @ + 1]
                 /\ outcome' = Raised("Exception")
                 /\ pc' = "idle"
                 /\ Forget
                 /\ UNCHANGED <<REQUEST_COUNT, API_TOKEN,
                                DEFAULT_STATUS_FORCE_LIST, remote, requests,
                                sent, tpc, treg, LOG, fn>>
       ELSE EndCall(IF response.error # "" THEN Raised(response.error)
                    ELSE IF RaisesForStatus(response.status)
                         THEN UploadFailed(response)
                         ELSE Returned(Some("UploadResponse"), <<>>))

\* WistiaEmbedApi.get_data up to its request
GetData == StartCall("get_data", "WistiaEmbedApi", "GET")

\* WistiaEmbedApi.get_data from the return of its request; has_error is
\* whether the JSON body holds an 'error' key
GetDataResponse(has_error) ==
    /\ pc = "response"
    /\ call.op = "get_data"
    /\ EndCall(IF response.error # "" THEN Raised(response.error)
               ELSE IF RaisesForStatus(response.status) THEN Raised("HTTPError")
               ELSE IF has_error THEN Raised("NoSuchMedia")
               ELSE Returned(Some("VideoEmbedData"), <<>>))

\* ------------------------------------------------------------------ Next

DataKeys == {None, Some("medias")}
DataModels == {None, Some("Media")}
CallerParams == {<<>>, ("sort_by" :> 1)}
Additional == {<<>>, <<400>>}

Transport == \E o \in AttemptResults : Attempt(o)

\* The facade classes used side by side by one caller
Next ==
    \/ \E cls \in Classes, t \in Tokens : Configure(cls, t)
    \/ \E cls \in Classes : ResetRequestCount(cls)
    \/ \E cls \in Classes, a \in Additional : NewSession(cls, a)
    \/ \E cls \in Classes, n \in 1..MaxPerPage : ListPage(cls, None, None, n, <<>>)
    \/ ListPageResponse
    \/ GetVideo("m1")
    \/ GetVideoResponse
    \/ UploadLink
    \/ UploadLinkResponse
    \/ GetData
    \/ \E e \in BOOLEAN : GetDataResponse(e)
    \/ Transport

Spec == Init /\ [][Next]_vars

\* One caller listing collections through WistiaDataApi.list_page
NextPage ==
    \/ \E m \in DataModels, k \in DataKeys, n \in 0..MaxPerPage,
          prm \in CallerParams : ListPage("WistiaDataApi", m, k, n, prm)
    \/ ListPageResponse
    \/ \E cls \in Classes : ResetRequestCount(cls)
    \/ Transport

SpecPage == Init /\ [][NextPage]_vars

\* statuses, bodies and failures a request to the upload endpoint can meet
UploadAttemptResults ==
    [kind : {"status"}, status : {200, 503}, text : {<<>>}]
        \cup [kind : {"status"}, status : {400, 401}, text : {<<>>, <<"error">>}]
        \cup [kind : {"connect_error", "read_error"}, status : {0}, text : {<<>>}]

TransportUpload == \E o \in UploadAttemptResults : Attempt(o)

\* One caller uploading files through WistiaUploadApi.upload_file
NextUpload ==
    \/ \E n \in 0..MaxUploadRetries : UploadFile(n)
    \/ UploadFileResponse
    \/ UploadLink
    \/ UploadLinkResponse
    \/ \E cls \in Classes : ResetRequestCount(cls)
    \/ TransportUpload

SpecUpload == Init /\ [][NextUpload]_vars

\* ------------------------------------------------------ WistiaDataApi

MediaIds == {"m1", "m2"}
ProjectIds == {"p1"}

\* update_media, get_stats_for_video, get_customizations,
\* create_customizations, update_customizations, list_captions: one request
\* about a media, then the same handling of the response as get_video
Method ==
    [update_media |-> "PUT", get_stats_for_video |-> "GET",
     get_customizations |-> "GET", create_customizations |-> "POST",
     update_customizations |-> "PUT", list_captions |-> "GET"]

MediaOps == DOMAIN Method

\* get_media(media_id) is get_video(media_id)
GetMedia(media_id) == GetVideo(media_id)

MediaCall(op, video_id) ==
    StartCallFor(op, "WistiaDataApi", Method[op], video_id, None)

\* `raise NoSuchMedia(video_id) if cls._has_resp_status(e, 404) else e`
MediaCallResponse ==
    /\ pc = "response"
    /\ call.op \in MediaOps
    /\ EndCall(IF response.error # "" THEN Raised(response.error)
               ELSE IF RaisesForStatus(response.status)
                    THEN (IF _has_resp_status(response, 404)
                          THEN RaisedFor("NoSuchMedia", call.id)
                          ELSE Raised("HTTPError"))
                    ELSE Returned(Some(call.op), <<>>))

\* WistiaDataApi.list_project up to the first page request of its list_page
ListProject(project_id, per_page) ==
    ListPageFor("list_project", project_id, "WistiaDataApi", Some("Media"),
                Some("medias"), per_page, <<>>)

\* WistiaDataApi.list_medias up to the first page request of its list_page,
\* which pages by its default per_page; `if project_id:` adds the filter
ListMediasAs(project_id, model_cls) ==
    ListPageFor("list_medias",
                IF project_id # None THEN project_id[1] ELSE "None",
                "WistiaDataApi", Some(model_cls), None, _MAX_PER_PAGE,
                IF TruthyStr(project_id) THEN ("project_id" :> project_id[1])
                ELSE <<>>)

ListMedias(project_id) == ListMediasAs(project_id, "Media")

\* WistiaDataApi.list_videos: list_medias(..., model_cls=Video)
ListVideos(project_id) == ListMediasAs(project_id, "Video")

\* WistiaDataApi.copy_video up to its request
CopyVideo(video_id, dest_project_id) ==
    StartCallFor("copy_video", "WistiaDataApi", "POST", video_id, dest_project_id)

\* `dest_project_id in r.text`: the body is a sequence of words, ids are words
InNoText(word, text) == FALSE
InText(word, text) == \E i \in 1..Len(text) : text[i] = word

\* bodies the remote may send with a 404
Texts == {<<>>, <<"m1">>, <<"p1">>, <<"m1", "p1">>}

\* copy_video from the return of its request
CopyVideoResponse ==
    /\ pc = "response"
    /\ call.op = "copy_video"
    /\ EndCall(IF response.error # "" THEN Raised(response.error)
               ELSE IF RaisesForStatus(response.status)
                    THEN (IF _has_resp_status(response, 404)
                          THEN (IF TruthyStr(call.dest)
                                   /\ InText(call.dest[1], response.text)
                                THEN RaisedFor("NoSuchProject", call.dest[1])
                                ELSE RaisedFor("NoSuchMedia", call.id))
                          ELSE Raised("HTTPError"))
                    ELSE Returned(Some("Video"), <<>>))

\* WistiaDataApi.order_captions up to its request
OrderCaptions(video_id) ==
    StartCallFor("order_captions", "WistiaDataApi", "POST", video_id, None)

\* order_captions, `except HTTPError:` what is raised for the status
OrderCaptionsNotFound(video_id, status) == RaisedFor("NoSuchMedia", video_id)
OrderCaptionsError(video_id, status) ==
    IF status = 400 THEN RaisedFor("VideoHasCaptions", video_id)
    ELSE IF status = 404 THEN RaisedFor("NoSuchMedia", video_id)
    ELSE Raised("HTTPError")

\* order_captions from the return of its request
OrderCaptionsResponse ==
    /\ pc = "response"
    /\ call.op = "order_captions"
    /\ EndCall(IF response.error # "" THEN Raised(response.error)
               ELSE IF RaisesForStatus(response.status)
                    THEN OrderCaptionsError(call.id, response.status)
                    ELSE Returned(None, <<>>))

\* ------------------------------------------------------------ captions

\* WistiaDataApi.get_captions up to its request
GetCaptions(video_id) ==
    StartCallFor("get_captions", "WistiaDataApi", "GET", video_id, None)

\* get_captions from the return of its request: `if r.status_code == 404:
\* return None`, any other HTTPError is re-raised
GetCaptionsResponse ==
    /\ pc = "response"
    /\ call.op = "get_captions"
    /\ EndCall(IF response.error # "" THEN Raised(response.error)
               ELSE IF RaisesForStatus(response.status)
                    THEN (IF response.status = 404 THEN Returned(None, <<>>)
                          ELSE Raised("HTTPError"))
                    ELSE Returned(Some("VideoCaptions"), <<>>))

\* WistiaHelper.video_exists up to its HEAD request
VideoExists(video_id) ==
    StartCallFor("video_exists", "WistiaDataApi", "HEAD", video_id, None)

\* video_exists from the return of its request: `return not (status == 404)`
VideoExistsResponse ==
    /\ pc = "response"
    /\ call.op = "video_exists"
    /\ EndCall(IF response.error # "" THEN Raised(response.error)
               ELSE Returned(Some("bool"), <<~(response.status = 404)>>))

\* the files a caller can name, by their contents
FileContents == [a_srt |-> "1 --> 2", empty_srt |-> ""]

\* resolve_contents(file_path, contents): the contents of the file when a
\* path is given, else the contents given; ContentIsEmpty when that is empty
ResolveAsGiven(file_path, contents) == Returned(None, contents)
resolve_contents(file_path, contents) ==
    LET read == IF TruthyStr(file_path) THEN Some(FileContents[file_path[1]])
                ELSE contents
    IN  IF ~TruthyStr(read) THEN Raised("ContentIsEmpty")
        ELSE Returned(None, read)

\* create_captions / update_captions up to the first request, or to the
\* ContentIsEmpty raised by resolve_contents before any session is built
CaptionsCall(op, method, video_id, srt_contents, srt_file) ==
    /\ pc = "idle"
    /\ call' = [NoCall EXCEPT !.op = op, !.cls = "WistiaDataApi",
                              !.id = video_id, !.contents = srt_contents,
                              !.file = srt_file]
    /\ IF resolve_contents(srt_file, srt_contents).kind = "raise"
       THEN /\ outcome' = resolve_contents(srt_file, srt_contents)
            /\ LOG' = ErrorLog(resolve_contents(srt_file, srt_contents))
            /\ requests' = <<>>
            /\ UNCHANGED <<REQUEST_COUNT, DEFAULT_STATUS_FORCE_LIST, pc, session,
                           retry, attempts, response, sent>>
       ELSE /\ outcome' = NoOutcome
            /\ LOG' = <<>>
            /\ Dispatch("WistiaDataApi", <<>>, method, <<>>)
    /\ UNCHANGED <<API_TOKEN, remote, tpc, treg, fn>>

\* WistiaDataApi.create_captions
CreateCaptions(video_id, srt_contents, srt_file) ==
    CaptionsCall("create_captions", "POST", video_id, srt_contents, srt_file)

\* create_captions from the return of its request: r.raise_for_status()
CreateCaptionsResponse ==
    /\ pc = "response"
    /\ call.op = "create_captions"
    /\ EndCall(IF response.error # "" THEN Raised(response.error)
               ELSE IF RaisesForStatus(response.status) THEN Raised("HTTPError")
               ELSE Returned(None, <<>>))

\* WistiaDataApi.update_captions: the PUT of Captions#update comes first
UpdateCaptionsCreateFirst(video_id, srt_contents, srt_file) ==
    CaptionsCall("update_captions", "POST", video_id, srt_contents, srt_file)
UpdateCaptions(video_id, srt_contents, srt_file) ==
    CaptionsCall("update_captions", "PUT", video_id, srt_contents, srt_file)

\* update_captions: `if r.status_code != 404: raise`
FallsBackOnAnyError(r) == TRUE
FallsBack(r) == r.status = 404

\* update_captions from the return of a request: after the PUT, a 404 leads
\* to create_captions(video_id, lang_code, srt_contents) and its POST, any
\* other HTTPError is re-raised; after the POST, create_captions raises or
\* returns and update_captions returns None
UpdateCaptionsResponse ==
    /\ pc = "response"
    /\ call.op = "update_captions"
    /\ IF /\ requests[Len(requests)].method = "PUT"
          /\ response.error = ""
          /\ RaisesForStatus(response.status)
          /\ FallsBack(response)
       THEN /\ Dispatch(call.cls, requests, "POST", <<>>)
            /\ UNCHANGED <<API_TOKEN, remote, call, outcome, tpc, treg, LOG, fn>>
       ELSE EndCall(IF response.error # "" THEN Raised(response.error)
                    ELSE IF RaisesForStatus(response.status)
                         THEN Raised("HTTPError")
                         ELSE Returned(None, <<>>))

SrtContents == {None, Some(""), Some("1 --> 2")}
SrtFiles == {None, Some("a_srt"), Some("empty_srt")}

\* delete_project, delete_media, delete_customizations, delete_captions:
\* each returns handle_delete(url)
DeleteOps ==
    {"delete_project", "delete_media", "delete_customizations",
     "delete_captions"}

\* handle_delete up to `cls.session().delete(url)`
HandleDelete(op, id) == StartCallFor(op, "WistiaDataApi", "DELETE", id, None)

\* `success = r.status_code == 200`
SuccessOnAny2xx(r) == 200 <= r.status /\ r.status < 300
Success(r) == r.status = 200

\* handle_delete from the return of the request: nothing is caught, so an
\* exception of the session goes to the caller; otherwise the status is
\* tested, one LOG.error is written on failure, and the test is returned
HandleDeleteSwallows ==
    /\ pc = "response"
    /\ call.op \in DeleteOps
    /\ EndCallWith(Returned(Some("bool"), <<FALSE>>),
                   <<[code |-> "handle_delete", id |-> call.op,
                      status |-> response.status]>>)
HandleDeleteResponse ==
    /\ pc = "response"
    /\ call.op \in DeleteOps
    /\ IF response.error # ""
       THEN EndCall(Raised(response.error))
       ELSE EndCallWith(Returned(Some("bool"), <<Success(response)>>),
                IF Success(response) THEN <<>>
                ELSE <<[code |-> "handle_delete", id |-> call.op,
                        status |-> response.status]>>)

\* statuses and failures a Data API request can meet
DataAttemptResults ==
    [kind : {"status"}, status : {200, 204, 400, 401, 503}, text : {<<>>}]
        \cup [kind : {"status"}, status : {404}, text : Texts]
        \cup [kind : {"connect_error", "read_error"}, status : {0}, text : {<<>>}]

TransportData == \E o \in DataAttemptResults : Attempt(o)

\* One caller of the single-resource calls of WistiaDataApi
NextData ==
    \/ \E cls \in Classes, a \in Additional : NewSession(cls, a)
    \/ \E v \in MediaIds : GetMedia(v)
    \/ GetVideoResponse
    \/ \E op \in MediaOps, v \in MediaIds : MediaCall(op, v)
    \/ MediaCallResponse
    \/ \E v \in MediaIds, d \in {None, Some("")} \cup {Some(p) : p \in ProjectIds} :
            CopyVideo(v, d)
    \/ CopyVideoResponse
    \/ \E p \in ProjectIds, n \in 1..MaxPerPage : ListProject(p, n)
    \/ \E p \in {None} \cup {Some(q) : q \in ProjectIds} : ListMedias(p)
    \/ ListPageResponse
    \/ \E v \in MediaIds : OrderCaptions(v)
    \/ OrderCaptionsResponse
    \/ \E op \in DeleteOps, id \in MediaIds \cup ProjectIds : HandleDelete(op, id)
    \/ HandleDeleteResponse
    \/ \E v \in MediaIds : GetCaptions(v)
    \/ GetCaptionsResponse
    \/ \E v \in MediaIds : VideoExists(v)
    \/ VideoExistsResponse
    \/ \E v \in MediaIds, c \in SrtContents, f \in SrtFiles :
            CreateCaptions(v, c, f)
    \/ CreateCaptionsResponse
    \/ \E v \in MediaIds, c \in SrtContents, f \in SrtFiles :
            UpdateCaptions(v, c, f)
    \/ UpdateCaptionsResponse
    \/ TransportData

InitData == Init /\ remote \in {0, MaxItems}

SpecData == InitData /\ [][NextData]_vars

\* ------------------------------------- listings by their default page size

\* list_project(project_id, ..., per_page=500, ...)
ListProjectPerPage == 500

\* collections around the page sizes of list_project and list_videos
CollectionSizes ==
    {1, MaxItems, _MAX_PER_PAGE - 1, _MAX_PER_PAGE, _MAX_PER_PAGE + 1,
     2 * _MAX_PER_PAGE, ListProjectPerPage - 1, ListProjectPerPage,
     ListProjectPerPage + 1}

InitCount == InitLocal /\ remote \in CollectionSizes /\ fn = NoFn

NextCount ==
    \/ \E p \in ProjectIds : ListProject(p, ListProjectPerPage)
    \/ \E p \in ProjectIds : ListVideos(Some(p))
    \/ ListPageResponse
    \/ \E cls \in CountingClasses : ResetRequestCount(cls)
    \/ Transport

SpecCount == InitCount /\ [][NextCount]_vars

\* ------------------------------------------------------- WistiaHelper

\* `if not projects:`: no collection, or an empty one
PassedUnlessNone(projects) == projects # None
Passed(projects) == projects # None /\ Len(projects[1]) > 0

\* WistiaHelper.project_details up to its return, or up to the first page
\* request of WistiaDataApi.list_all_projects() when `not projects`
ProjectDetails(project_id, projects) ==
    IF Passed(projects)
    THEN /\ pc = "idle"
         /\ call' = [NoCall EXCEPT !.op = "project_details",
                                   !.cls = "WistiaDataApi", !.id = project_id,
                                   !.projects = projects]
         /\ outcome' = FindProject(project_id, projects[1])
         /\ LOG' = ErrorLog(FindProject(project_id, projects[1]))
         /\ requests' = <<>>
         /\ UNCHANGED <<REQUEST_COUNT, API_TOKEN, DEFAULT_STATUS_FORCE_LIST,
                        remote, pc, session, retry, attempts, response, sent,
                        tpc, treg, fn>>
    ELSE /\ pc = "idle"
         /\ call' = [NoCall EXCEPT !.op = "project_details",
                                   !.cls = "WistiaDataApi", !.id = project_id,
                                   !.per_page = _MAX_PER_PAGE,
                                   !.data_model = Some("Project"),
                                   !.page = 1, !.projects = projects]
         /\ outcome' = NoOutcome
         /\ LOG' = <<>>
         /\ Dispatch("WistiaDataApi", <<>>, "GET",
                     RequestPageParams(<<>>, None, Some(_MAX_PER_PAGE)))
         /\ UNCHANGED <<API_TOKEN, remote, tpc, treg, fn>>

\* hashed ids asked for, and the collections a caller passes: none, an
\* empty one, or earlier results of list_all_projects
HashedIds == {ToString(i) : i \in 1..MaxItems}
RECURSIVE RawLists(_)
RawLists(n) ==
    IF n = 0 THEN {<<>>}
    ELSE RawLists(n - 1)
         \cup {Append(l, i) : l \in RawLists(n - 1), i \in 1..MaxItems}
ProjectLists ==
    {None} \cup {Some(from_list("Project", l)) : l \in RawLists(MaxPerPage)}

NextHelper ==
    \/ \E p \in HashedIds, l \in ProjectLists : ProjectDetails(p, l)
    \/ ListPageResponse
    \/ \E cls \in CountingClasses : ResetRequestCount(cls)
    \/ Transport

SpecHelper == Init /\ [][NextHelper]_vars

\* ------------------------------------------------- prefix_url_session

\* URLs are sequences of characters; 'a' stands for any character but '/'
Chars == {"/", "a"}

RECURSIVE StringsOfLen(_)
StringsOfLen(n) ==
    IF n = 0 THEN {<<>>}
    ELSE {Append(w, c) : w \in StringsOfLen(n - 1), c \in Chars}

Strings == UNION {StringsOfLen(n) : n \in 0..MaxLen}

\* str.rstrip('/')
RECURSIVE rstrip(_)
KeepTrailing(str) == str
rstrip(str) ==
    IF str # <<>> /\ str[Len(str)] = "/"
    THEN rstrip(SubSeq(str, 1, Len(str) - 1))
    ELSE str

\* str.lstrip('/')
RECURSIVE lstrip(_)
lstrip(str) ==
    IF str # <<>> /\ Head(str) = "/" THEN lstrip(Tail(str)) ELSE str

\* prefix_url_session: `prefix = prefix.rstrip('/') + '/'`
prefix_url_session(prefix) == rstrip(prefix) \o <<"/">>

\* new_request: the URL handed to the wrapped session.request
new_request(prefix, url) == prefix \o lstrip(url)

InitUrl ==
    /\ InitProgram
    /\ remote = 0
    /\ fn \in [arg : Strings \X Strings, result : {<<>>}, done : {FALSE}]

\* a request of `url` through the session made by prefix_url_session(prefix)
RequestUrl ==
    /\ ~fn.done
    /\ fn' = [fn EXCEPT !.result = new_request(prefix_url_session(fn.arg[1]),
                                               fn.arg[2]),
                        !.done = TRUE]
    /\ UNCHANGED <<REQUEST_COUNT, API_TOKEN, DEFAULT_STATUS_FORCE_LIST, remote,
                   pc, call, session, requests, retry, attempts, response,
                   outcome, sent, tpc, treg, LOG>>

NextUrl == RequestUrl

SpecUrl == InitUrl /\ [][NextUrl]_vars

\* ------------------------------------------------------ get_srt_duration

MaxLines == 3

\* end timestamps as written in a timing line, "H:mm:ss,SSS"
Timestamps ==
    {[h |-> 0, m |-> 0, s |-> 2, ms |-> 0],
     [h |-> 0, m |-> 3, s |-> 0, ms |-> 40],
     [h |-> 1, m |-> 20, s |-> 32, ms |-> 5]}

\* the lines of an SRT text after split('\n'): an empty line, a line of
\* spaces, a line of dialogue or a cue number, a timing line "start --> end"
SrtLines ==
    [kind : {"empty", "spaces", "text"}, end : {<<>>}]
        \cup [kind : {"timing"}, end : {<<t>> : t \in Timestamps}]

RECURSIVE LinesUpTo(_)
LinesUpTo(n) ==
    IF n = 0 THEN {<<>>}
    ELSE LinesUpTo(n - 1)
         \cup {Append(l, x) : l \in {k \in LinesUpTo(n - 1) : Len(k) = n - 1},
                              x \in SrtLines}

\* total_ms: reduce(lambda sum, d: sum * 60 + int(d), h_m_s.split(':'), 0)
\* seconds, times 1000, plus the milliseconds field
total_ms(ts) == (((0 * 60 + ts.h) * 60 + ts.m) * 60 + ts.s) * 1000 + ts.ms

\* total_seconds: `divmod(total_ms(ts), 1000)` written as 'seconds.mmm';
\* the decimal is kept as the pair <<seconds, thousandths>>
total_seconds(ts) == <<total_ms(ts) \div 1000, total_ms(ts) % 1000>>

\* `'-->' in line`
HasArrow(line) == line.kind = "timing"

\* `not following_line.strip()`; following_line is '' before any line is seen
SkipNever(following_line) == FALSE
IsBlank(following_line) ==
    following_line = <<>> \/ following_line[1].kind \in {"empty", "spaces"}

\* the loop of get_srt_duration over reversed(caption_text), at line i with
\* the following_line kept so far: a skipped timing line `continue`s before
\* `following_line = line`
RECURSIVE ScanBack(_, _, _, _)
ScanBack(caption_text, i, following_line, default_end_seconds) ==
    IF i = 0 THEN default_end_seconds
    ELSE IF HasArrow(caption_text[i])
         THEN IF IsBlank(following_line)
              THEN ScanBack(caption_text, i - 1, following_line,
                            default_end_seconds)
              ELSE total_seconds(caption_text[i].end[1])
         ELSE ScanBack(caption_text, i - 1, <<caption_text[i]>>,
                       default_end_seconds)

get_srt_duration(srt_contents, default_end_seconds) ==
    ScanBack(srt_contents, Len(srt_contents), <<>>, default_end_seconds)

\* default_end_seconds given by the caller: 0.0 or 0.5
Defaults == {<<0, 0>>, <<0, 500>>}

InitSrt ==
    /\ InitLocal
    /\ remote = 0
    /\ fn \in [arg : LinesUpTo(MaxLines) \X Defaults, result : {<<>>},
                done : {FALSE}]

GetSrtDuration ==
    /\ ~fn.done
    /\ fn' = [fn EXCEPT !.result = get_srt_duration(fn.arg[1], fn.arg[2]),
                        !.done = TRUE]
    /\ UNCHANGED <<REQUEST_COUNT, API_TOKEN, DEFAULT_STATUS_FORCE_LIST, remote,
                   pc, call, session, requests, retry, attempts, response,
                   outcome, sent, tpc, treg, LOG>>

NextSrt == GetSrtDuration

SpecSrt == InitSrt /\ [][NextSrt]_vars

\* ------------------------------------------- callers on several threads

\* wrapper of _increment_count_decorator, `_REQUEST_COUNT += 1`: the read of
\* the class attribute ...
WrapperLoad(t) ==
    /\ tpc[t] = "idle"
    /\ treg' = [treg EXCEPT ![t] = REQUEST_COUNT]
    /\ tpc' = [tpc EXCEPT ![t] = "loaded"]
    /\ UNCHANGED <<REQUEST_COUNT, API_TOKEN, DEFAULT_STATUS_FORCE_LIST, remote,
                   pc, call, session, requests, retry, attempts, response,
                   outcome, sent, LOG, fn>>

\* ... and the write of the sum, which another thread's write may precede
WrapperStore(t) ==
    /\ tpc[t] = "loaded"
    /\ REQUEST_COUNT' = IncrementCount(treg[t])
    /\ tpc' = [tpc EXCEPT ![t] = "stored"]
    /\ UNCHANGED <<API_TOKEN, DEFAULT_STATUS_FORCE_LIST, remote, pc, call,
                   session, requests, retry, attempts, response, outcome,
                   sent, treg, LOG, fn>>

\* wrapper: `return func(*args, **kwargs)`, the request is dispatched
WrapperCall(t, cls) ==
    /\ tpc[t] = "stored"
    /\ sent' = [sent EXCEPT ![cls] = @ + 1]
    /\ tpc' = [tpc EXCEPT ![t] = "done"]
    /\ UNCHANGED <<REQUEST_COUNT, API_TOKEN, DEFAULT_STATUS_FORCE_LIST, remote,
                   pc, call, session, requests, retry, attempts, response,
                   outcome, treg, LOG, fn>>

InitThreads == Init /\ remote = 0

NextThreads ==
    \/ \E t \in Threads : WrapperLoad(t)
    \/ \E t \in Threads : WrapperStore(t)
    \/ \E t \in Threads, cls \in CountingClasses : WrapperCall(t, cls)

\* Each thread makes one logical request through a counting session
SpecThreads == InitThreads /\ [][NextThreads]_vars

\* ================================================================ claims

\* a list_page call that has returned its result
ListPageReturned == call.op = "list_page" /\ pc = "idle" /\ outcome.kind = "return"

\* the array the remote served for the i-th request of the call
ServedPage(i) == RemotePage(requests[i].params)

RECURSIVE ServedUpTo(_)
ServedUpTo(i) == IF i = 0 THEN <<>> ELSE ServedUpTo(i - 1) \o ServedPage(i)

C2_Concatenation ==
    ListPageReturned =>
        LET all == ServedUpTo(Len(requests))
        IN  IF call.data_model = None
            THEN outcome.value = all
            ELSE /\ Len(outcome.value) = Len(all)
                 /\ \A i \in 1..Len(all) : outcome.value[i].raw = all[i]

C2_Witness ==
    /\ ListPageReturned
    /\ call.data_key = Some("medias")
    /\ call.data_model = Some("Media")
    /\ Len(requests) = 2
    /\ Len(outcome.value) = 3
    /\ outcome.value[3].raw = 3

\* C3 (as claimed): for every per_page >= 0, no page request follows the
\* first page that holds fewer than per_page items or no item at all.
C3_StopsAtShortOrEmptyPage ==
    call.op = "list_page" =>
        \A i \in 1..(Len(requests) - 1) :
            ~ (Len(ServedPage(i)) < call.per_page \/ Len(ServedPage(i)) = 0)

\* C4 (as claimed): the first request carries no `page`, the i-th following
\* one carries page = i + 1, and every request carries the per_page value.
C4_EveryRequestCarriesPerPage ==
    call.op = "list_page" =>
        \A i \in 1..Len(requests) :
            LET prm == requests[i].params
            IN  /\ IF i = 1 THEN "page" \notin DOMAIN prm
                   ELSE "page" \in DOMAIN prm /\ prm["page"] = i
                /\ "per_page" \in DOMAIN prm
                /\ prm["per_page"] = call.per_page

\* C4 (amended): the first request carries no `page`, the i-th following one
\* carries page = i + 1, and every request carries the per_page value when
\* that value is not 0; a per_page of 0 is sent with no request.
C4_PageSequence ==
    call.op = "list_page" =>
        \A i \in 1..Len(requests) :
            LET prm == requests[i].params
            IN  /\ IF i = 1 THEN "page" \notin DOMAIN prm
                   ELSE "page" \in DOMAIN prm /\ prm["page"] = i
                /\ IF call.per_page # 0
                   THEN "per_page" \in DOMAIN prm /\ prm["per_page"] = call.per_page
                   ELSE "per_page" \notin DOMAIN prm

C4_Witness ==
    /\ call.op = "list_page"
    /\ call.per_page = 1
    /\ Len(requests) = 3
    /\ requests[3].params["page"] = 3
    /\ requests[3].params["per_page"] = 1

\* C5: a page request of list_page that ends in an error ends the call with
\* that error: no further page is requested and nothing is returned.
C5_ErrorAborts ==
    [][(/\ pc = "response"
        /\ call.op = "list_page"
        /\ (response.error # "" \/ response.status >= 400))
       => (/\ pc' = "idle"
           /\ outcome'.kind = "raise"
           /\ outcome'.error = (IF response.error # "" THEN response.error
                                ELSE "HTTPError")
           /\ outcome'.value = <<>>
           /\ requests' = requests
           /\ sent' = sent)]_vars

C5_Witness ==
    /\ call.op = "list_page"
    /\ pc = "idle"
    /\ outcome.kind = "raise"
    /\ outcome.error = "HTTPError"
    /\ Len(requests) = 2
    /\ Len(call.data) = 2

\* a step that hands one logical request of class c to session.request
Dispatches(c) == sent'[c] = sent[c] + 1

\* C6: a logical request made through a counting session raises the request
\* counter by exactly 1 when it is dispatched; the physical attempts of the
\* retrying transport and the way the call ends (return or raise) add nothing.
C6_OncePerLogicalRequest ==
    [][/\ \A c \in Classes :
              (Dispatches(c) /\ session'.counting)
                  => REQUEST_COUNT' = REQUEST_COUNT + 1
       /\ pc = "transport" => REQUEST_COUNT' = REQUEST_COUNT
       /\ (pc = "response" /\ pc' = "idle") => REQUEST_COUNT' = REQUEST_COUNT]_vars

C6_Witness ==
    /\ pc = "response"
    /\ session.counting
    /\ attempts = 4
    /\ response.error = ""
    /\ response.status = 200
    /\ TotalSent = 1
    /\ REQUEST_COUNT = 1

\* C7: read through WistiaDataApi or WistiaUploadApi, request_count() is the
\* number of logical requests both classes made since the last reset, which
\* makes it 0 for both.
C7_SharedByDataAndUpload ==
    /\ request_count("WistiaDataApi") = sent["WistiaDataApi"] + sent["WistiaUploadApi"]
    /\ request_count("WistiaUploadApi") = sent["WistiaDataApi"] + sent["WistiaUploadApi"]

C7_Witness ==
    /\ call.op = "upload_link"
    /\ pc = "idle"
    /\ sent["WistiaDataApi"] = 1
    /\ sent["WistiaUploadApi"] = 1
    /\ request_count("WistiaDataApi") = 2
    /\ request_count("WistiaUploadApi") = 2

\* C8 (as claimed): once every thread has dispatched its request, and no
\* reset happened, the counter has grown by the number of threads.
C8_NoLostIncrement ==
    (\A t \in Threads : tpc[t] = "done") => REQUEST_COUNT = NThreads

\* C9 (as claimed): every request of every facade class, WistiaEmbedApi
\* included, raises the shared counter by one.
C9_EveryClassCounts ==
    [][\A c \in Classes :
           Dispatches(c) =>
               \A d \in Classes : request_count(d)' = request_count(d) + 1]_vars

\* C9 (amended): every request of WistiaDataApi and of WistiaUploadApi raises
\* the shared counter by one, as seen through request_count() of every class;
\* a request of WistiaEmbedApi leaves the counter as it is.
C9_DataAndUploadCount ==
    [][\A c \in Classes :
           Dispatches(c) =>
               \A d \in Classes :
                   request_count(d)' = request_count(d)
                       + (IF c \in {"WistiaDataApi", "WistiaUploadApi"} THEN 1 ELSE 0)]_vars

C9_Witness ==
    /\ call.op = "get_data"
    /\ pc = "idle"
    /\ outcome.kind = "return"
    /\ sent["WistiaEmbedApi"] = 2
    /\ sent["WistiaDataApi"] = 1
    /\ request_count("WistiaEmbedApi") = 1

\* C10: only reset_request_count lowers the request counter, and it sets it
\* to 0; every other step leaves it unchanged or, when it dispatches a
\* logical request, raises it by 1.
C10_CounterFrame ==
    [][/\ (\E c \in Classes : ResetRequestCount(c)) => REQUEST_COUNT' = 0
       /\ REQUEST_COUNT' < REQUEST_COUNT => \E c \in Classes : ResetRequestCount(c)
       /\ REQUEST_COUNT' > REQUEST_COUNT =>
              /\ REQUEST_COUNT' = REQUEST_COUNT + 1
              /\ \E c \in Classes : Dispatches(c)
       /\ ( \/ \E c \in Classes, t \in Tokens : Configure(c, t)
            \/ \E c \in Classes, a \in Additional : NewSession(c, a)
            \/ pc = "transport"
            \/ (pc = "response" /\ pc' = "idle") )
              => REQUEST_COUNT' = REQUEST_COUNT]_vars

C10_Witness ==
    /\ pc = "idle"
    /\ call.op = "get_video"
    /\ outcome.error = "NoSuchMedia"
    /\ API_TOKEN = "tok1"
    /\ Len(DEFAULT_STATUS_FORCE_LIST) > Len(InitialStatusForceList)
    /\ REQUEST_COUNT = 3

\* C11: configure(t), called through any facade class, sets the one token
\* all classes share, a later configure (None included) replaces it, and
\* every session built afterwards authenticates as ('api', t)
C11_TokenShared ==
    [][ /\ \A c \in Classes, t \in Tokens : Configure(c, t) => API_TOKEN' = t
        /\ (session' # session /\ session' # NoSession)
               => /\ session'.auth = <<"api", API_TOKEN>>
                  /\ API_TOKEN' = API_TOKEN ]_vars

\* a session of another class authenticating with the configured token
C11_Witness ==
    /\ API_TOKEN = "tok1"
    /\ session.cls = "WistiaUploadApi"
    /\ session.auth = <<"api", "tok1">>

\* the status codes held by a status_forcelist
Codes(list) == {list[i] : i \in 1..Len(list)}

\* C12: a session built with additional codes retries on the default codes
\* plus exactly those, and building it leaves the default set as it was
C12_DefaultSetUnchanged ==
    [][ \A c \in Classes, a \in Additional :
          NewSession(c, a) =>
              /\ Codes(session'.status_forcelist)
                     = Codes(InitialStatusForceList) \cup Codes(a)
              /\ DEFAULT_STATUS_FORCE_LIST' = DEFAULT_STATUS_FORCE_LIST ]_vars

\* C13: a logical request makes at most 1 + max_retries attempts (7 by
\* default); an attempt after the first follows only a response with a status
\* of the session's retryable set or a connection failure, so a status outside
\* the set ends the request at once; and the attempts of one request are one
\* request to the caller: one entry, one count, one final response
C13_BoundedRetries ==
    [][ /\ attempts' <= 1 + DEFAULT_MAX_RETRIES
        /\ (pc' = "transport" /\ attempts' >= 1)
               => /\ response'.error = "retrying"
                  /\ \/ response'.status = 0
                     \/ response'.status \in Codes(session'.status_forcelist)
        /\ (pc = "transport" /\ pc' = "response" /\ response'.error = "")
               => response'.status \notin Codes(session'.status_forcelist)
        /\ (pc = "transport" /\ pc' = "response" /\ response'.error = "RetryError")
               => attempts' = 1 + DEFAULT_MAX_RETRIES
        /\ pc = "transport"
               => /\ requests' = requests
                  /\ REQUEST_COUNT' = REQUEST_COUNT
                  /\ outcome' = outcome ]_vars

\* a request that used every retry on a retryable status
C13_Witness ==
    /\ pc = "response"
    /\ attempts = 1 + DEFAULT_MAX_RETRIES
    /\ response.error = "RetryError"
    /\ Len(requests) = 1

\* C14: whatever the facade call, a connection failure that outlasts the
\* retries ends the call with a connection error raised to the caller,
\* upload_file after its max_retries attempts included
C14_ConnectionErrorReachesCaller ==
    [][ (pc = "response" /\ response.error = "ConnectionError" /\ pc' = "idle")
            => (outcome'.kind = "raise" /\ outcome'.error = "ConnectionError")
      ]_vars

\* number of characters of str left once its trailing slashes are dropped
TrimmedEnd(str) ==
    CHOOSE k \in 0..Len(str) :
        /\ k = 0 \/ str[k] # "/"
        /\ \A i \in (k + 1)..Len(str) : str[i] = "/"

\* number of leading slashes of str
LeadingSlashes(str) ==
    CHOOSE k \in 0..Len(str) :
        /\ k = Len(str) \/ str[k + 1] # "/"
        /\ \A i \in 1..k : str[i] = "/"

\* C15: the URL requested is the base without its trailing slashes, one '/',
\* and the path without its leading slashes, so the join holds one separator
C15_OneSeparator ==
    fn.done =>
        LET base == fn.arg[1]
            path == fn.arg[2]
            k    == TrimmedEnd(base)
            j    == LeadingSlashes(path)
            url  == fn.result
        IN  /\ url = SubSeq(base, 1, k) \o <<"/">> \o SubSeq(path, j + 1, Len(path))
            /\ url[k + 1] = "/"
            /\ k > 0 => url[k] # "/"
            /\ Len(url) > k + 1 => url[k + 2] # "/"

\* a base ending in slashes joined with a path starting with slashes
C15_Witness ==
    /\ fn.done
    /\ fn.arg = <<<<"a", "/", "/">>, <<"/", "/", "a">>>>
    /\ fn.result = <<"a", "/", "a">>

\* a delete call ending on what its DELETE request came back with
DeleteEnds == pc = "response" /\ call.op \in DeleteOps /\ pc' = "idle"

C17_DeleteNeverRaises ==
    (pc = "idle" /\ call.op \in DeleteOps)
        => /\ outcome.kind = "return"
           /\ outcome.value = <<TRUE>> \/ Len(LOG) = 1

\* C17 amended: a delete call raises nothing on a response (False and one
\* logged error for every status but 200), while a failure of the transport
\* is raised to the caller as the session raised it, with nothing logged
C17_DeleteRaisesTransportFailure ==
    [][ DeleteEnds
            => IF response.error = ""
               THEN /\ outcome'.kind = "return"
                    /\ response.status # 200
                           => (outcome'.value = <<FALSE>> /\ Len(LOG') = 1)
               ELSE /\ outcome' = Raised(response.error)
                    /\ response.error \in {"ConnectionError", "RetryError"}
                    /\ LOG' = <<>> ]_vars

\* a delete call that raised the connection error of its request
C17_Witness ==
    /\ pc = "idle"
    /\ call.op \in DeleteOps
    /\ outcome = Raised("ConnectionError")
    /\ attempts = 0
    /\ Len(requests) = 1

\* the calls about one media and the listings about one project
MediaScoped == MediaOps \cup {"get_video"}
ProjectScoped == {"list_project", "list_medias"}

\* a call of `ops` taking a response whose status raise_for_status refuses
Refused(ops) ==
    /\ pc = "response"
    /\ call.op \in ops
    /\ response.error = ""
    /\ response.status >= 400

C28_CountPerAttempt ==
    [][ call'.op = "upload_file"
            => /\ REQUEST_COUNT' - REQUEST_COUNT
                      = Len(requests') - (IF pc = "idle" THEN 0 ELSE Len(requests))
               /\ Len(requests') <= call'.max_retries
               /\ call'.max_retries = 0 => (requests' = <<>> /\ pc' = "idle")
               /\ pc' # "idle" => Len(requests') = call'.retries + 1
               /\ (pc' = "idle" /\ outcome'.error # "Exception")
                      => Len(requests') = call'.retries + 1
               /\ (pc' = "idle" /\ outcome'.error = "Exception")
                      => /\ call'.retries = call'.max_retries
                         /\ Len(requests') = call'.max_retries ]_vars

\* two attempts lost to a connection error, the third completing: counter 3
C28_Witness ==
    /\ pc = "idle"
    /\ call.op = "upload_file"
    /\ outcome.kind = "return"
    /\ call.retries = 2
    /\ REQUEST_COUNT = 3
    /\ Len(requests) = 3

\* C22: create_captions and update_captions called with neither caption
\* text nor a caption file raise ContentIsEmpty, logged exactly once, before
\* any request is dispatched: no session is built, nothing is sent and the
\* request counter is unchanged.
CaptionsWrites == {"create_captions", "update_captions"}
C22_ContentIsEmptyBeforeRequest ==
    [][ ( /\ pc = "idle"
          /\ call'.op \in CaptionsWrites
          /\ ~TruthyStr(call'.contents)
          /\ ~TruthyStr(call'.file) )
        => ( /\ pc' = "idle"
             /\ outcome' = Raised("ContentIsEmpty")
             /\ Len(LOG') = 1
             /\ LOG'[1].code = "ContentIsEmpty"
             /\ requests' = <<>>
             /\ sent' = sent
             /\ session' = session
             /\ REQUEST_COUNT' = REQUEST_COUNT ) ]_vars

\* update_captions without content, after earlier calls were counted
C22_Witness ==
    /\ pc = "idle"
    /\ call.op = "update_captions"
    /\ call.contents = None
    /\ call.file = None
    /\ outcome = Raised("ContentIsEmpty")
    /\ Len(LOG) = 1
    /\ REQUEST_COUNT > 0

\* C23: a domain error is logged exactly once, when it is constructed, as
\* its class name with its message and the key=value of its context field;
\* while the error travels to the caller nothing more is logged, and an
\* error that is not a domain error adds no such entry.
C23_LoggedOnceOnConstruction ==
    outcome.kind = "raise"
    => IF outcome.error \in DomainErrors
       THEN /\ Len(LOG) = 1
            /\ LOG[1].code = outcome.error
            /\ LOG[1].key = LogKey[outcome.error]
            /\ LOG[1].id = outcome.id
       ELSE LOG = <<>>

\* order_captions of a video that has captions already
C23_Witness ==
    /\ pc = "idle"
    /\ outcome = RaisedFor("VideoHasCaptions", "m1")
    /\ Len(LOG) = 1
    /\ LOG[1].key = "video_id"
    /\ LOG[1].id = "m1"

C25_UpdateThenCreate ==
    [][ call'.op = "update_captions"
        => /\ requests' # requests
              => \/ requests' = <<>>
                 \/ /\ Len(requests') = 1
                    /\ requests'[1].method = "PUT"
                 \/ /\ Len(requests') = 2
                    /\ requests'[1].method = "PUT"
                    /\ requests'[2].method = "POST"
                    /\ pc = "response"
                    /\ Len(requests) = 1
                    /\ response.error = ""
                    /\ response.status = 404
           /\ (pc = "response" /\ ~(Len(requests) = 1 /\ response.error = ""
                                    /\ response.status = 404))
              => /\ pc' = "idle"
                 /\ requests' = requests
                 /\ outcome' = IF response.error # ""
                               THEN Raised(response.error)
                               ELSE IF response.status >= 400
                                    THEN Raised("HTTPError")
                                    ELSE Returned(None, <<>>) ]_vars

\* the update met a 404 and the fallback create was refused
C25_Witness ==
    /\ pc = "idle"
    /\ call.op = "update_captions"
    /\ Len(requests) = 2
    /\ requests[1].method = "PUT"
    /\ requests[2].method = "POST"
    /\ outcome = Raised("HTTPError")

\* a listing by its default page size has returned k >= 1 items, and the
\* requests of this call are all that were sent since the counter was 0
ListedFromZero ==
    /\ pc = "idle"
    /\ call.op \in {"list_project", "list_medias"}
    /\ outcome.kind = "return"
    /\ Len(outcome.value) >= 1
    /\ TotalSent = Len(requests)

Lookup(project_id, projects) ==
    IF \E i \in 1..Len(projects) : ToString(projects[i].raw) = project_id
    THEN Returned(Some("Project"),
                  <<[model |-> "Project",
                     raw |-> CHOOSE r \in 1..MaxItems : ToString(r) = project_id]>>)
    ELSE RaisedFor("NoSuchProject", project_id)

\* project_details answered at once from the collection passed
AnsweredFromCollection ==
    /\ pc' = "idle"
    /\ requests' = <<>>
    /\ sent' = sent
    /\ REQUEST_COUNT' = REQUEST_COUNT
    /\ outcome' = Lookup(call'.id, call'.projects[1])

\* C27 (as stated): when a projects collection is passed to project_details
\* no request is made and the counter is unchanged; the project with the
\* hashed id asked for is returned, NoSuchProject(project_id) is raised
\* when the collection holds none.
C27_PassedCollectionNoRequest ==
    [][ (pc = "idle" /\ call'.op = "project_details"
                     /\ call'.projects # None)
        => AnsweredFromCollection ]_vars

\* C27 (amended): when a non-empty projects collection is passed to
\* project_details no request is made and the counter is unchanged; the
\* project with the hashed id asked for is returned, NoSuchProject is raised
\* when the collection holds none. An empty collection is treated as no
\* collection: the projects are requested with list_all_projects (the
\* counter rises by one per page request) and searched instead.
C27_NonEmptyCollectionNoRequest ==
    [][ (pc = "idle" /\ call'.op = "project_details")
        => IF call'.projects # None /\ call'.projects[1] # <<>>
           THEN AnsweredFromCollection
           ELSE /\ pc' = "transport"
                /\ Len(requests') = 1
                /\ REQUEST_COUNT' = REQUEST_COUNT + 1
                /\ outcome' = NoOutcome ]_vars

\* after earlier requests, a project missing from the collection passed
C27_Witness ==
    /\ pc = "idle"
    /\ call.op = "project_details"
    /\ call.projects # None
    /\ Len(call.projects[1]) = 2
    /\ outcome = RaisedFor("NoSuchProject", "1")
    /\ Len(LOG) = 1
    /\ requests = <<>>
    /\ REQUEST_COUNT > 0

\* C29: every page request of a list_page call carries the query parameters
\* the caller supplied, each with its value, and beyond them only `page` and
\* `per_page`; the caller's dictionary holds neither key during or after
\* the call.
PagingKeys == {"page", "per_page"}
C29_CallerParamsKept ==
    call.op = "list_page"
    => /\ DOMAIN call.params \cap PagingKeys = {}
       /\ \A i \in 1..Len(requests) :
              /\ DOMAIN requests[i].params \ PagingKeys = DOMAIN call.params
              /\ \A k \in DOMAIN call.params :
                     requests[i].params[k] = call.params[k]

\* a sorted listing went through three page requests
C29_Witness ==
    /\ ListPageReturned
    /\ call.params = ("sort_by" :> 1)
    /\ Len(requests) = 3
    /\ requests[1].params = ("sort_by" :> 1) @@ ("per_page" :> 1)
    /\ requests[3].params = ("sort_by" :> 1) @@ ("page" :> 3) @@ ("per_page" :> 1)

\* a cue with dialogue: a timing line whose next line is a non-blank line of
\* dialogue, that is, neither blank nor itself a timing line
CueWithDialogue(lines, i) ==
    /\ lines[i].kind = "timing"
    /\ i < Len(lines)
    /\ lines[i + 1].kind = "text"

\* seconds and thousandths of an end timestamp
EndSeconds(ts) ==
    LET ms == ts.h * 3600000 + ts.m * 60000 + ts.s * 1000 + ts.ms
    IN  <<ms \div 1000, ms % 1000>>

====
